---------------------------- MODULE Spec2Model ----------------------------
(***************************************************************************)
(* A model of ctfd.py, the CTFd challenge directory manager: the name      *)
(* sanitizer, the categorizer, the filesystem materializer, the sidecar    *)
(* config store and the two run modes of the command line.                 *)
(*                                                                         *)
(* Strings are sequences of one-character strings, so that sanitize_name   *)
(* can be computed character by character.  A path is the sequence of its  *)
(* non-empty components below the target directory; the target directory   *)
(* itself is the empty path.                                               *)
(***************************************************************************)
EXTENDS Integers, Sequences, FiniteSets, TLC

VARIABLES
    sanIn,      \* SpecSan: the string handed to sanitize_name
    sanOut,     \* SpecSan: the results of applying sanitize_name once, twice
    orgIn,      \* SpecOrg: the list of summaries handed to the categorizer
    orgOut,     \* SpecOrg: the categorizer's result ("none" before the call)
    api,        \* the remote API: the challenge-list and detail responses
    readonly,   \* directories the process cannot write into
    dirs,       \* the directories that exist below (and including) the target
    files,      \* path -> content of the regular files below the target
    sidecar,    \* content of <target>/.ctfd.yaml
    clock,      \* the next value datetime.now() returns
    pc,         \* position of the process in __main__
    mode,       \* "fresh" (URL given), "resume" (no URL), "none" before a run
    url,        \* the base URL the run uses
    categories, \* the CategoryIndex of the run
    exitCode,   \* exit status of the last finished run, -1 while none finished
    runs,       \* number of runs started so far
    endedAt,    \* the step that ended the last finished run
    log,        \* what the materializer did in this run (observation only)
    startSidecar, \* the sidecar when this run started (observation only)
    prevRun     \* the previous run's mode and exit status, and the file tree
                \* it left, which this run started from (observation only)

vars == << sanIn, sanOut, orgIn, orgOut, api, readonly, dirs, files, sidecar,
           clock, pc, mode, url, categories, exitCode, runs, endedAt, log,
           startSidecar, prevRun >>

sanVars == << sanIn, sanOut >>
orgVars == << orgIn, orgOut >>
runVars == << api, readonly, dirs, files, sidecar, clock, pc, mode, url,
              categories, exitCode, runs, endedAt, log, startSidecar, prevRun >>

-----------------------------------------------------------------------------
(* Bounds of the model *)

MaxLen == 3         \* longest string handed to sanitize_name in SpecSan
MaxSummaries == 3   \* longest summary list handed to the categorizer in SpecOrg
MaxChallenges == 2  \* longest challenge list the API returns in SpecMat, SpecRun
MaxRuns == 2        \* invocations of the program in one behaviour of SpecRun

-----------------------------------------------------------------------------
(* Characters and strings *)

Alnum == {"a", "1"}
Whitespace == {" ", "\t"}
Chars == Alnum \cup Whitespace \cup {"-", "_", "/", "."}

RECURSIVE StringsUpTo(_)
StringsUpTo(n) ==
    IF n = 0 THEN {<< >>}
    ELSE LET shorter == StringsUpTo(n - 1)
         IN  shorter \cup {Append(s, c) : s \in shorter, c \in Chars}

\* c.isalnum()
isalnum(c) == c \in Alnum

\* the generator expression of sanitize_name: one character in, one out
MapChar(c) == IF isalnum(c) \/ c \in {" ", "-", "_"} THEN c ELSE "_"

RECURSIVE lstrip(_)
lstrip(s) ==
    IF s # << >> /\ Head(s) \in Whitespace THEN lstrip(Tail(s)) ELSE s

RECURSIVE rstrip(_)
rstrip(s) ==
    IF s # << >> /\ s[Len(s)] \in Whitespace
    THEN rstrip(SubSeq(s, 1, Len(s) - 1))
    ELSE s

\* str.strip()
strip(s) == rstrip(lstrip(s))

\* str.replace(" ", "_")
replace_space(s) == [i \in 1..Len(s) |-> IF s[i] = " " THEN "_" ELSE s[i]]

\* a sanitizer that forgets the final replace
sanitize_name_noreplace(name) == strip([i \in 1..Len(name) |-> MapChar(name[i])])

sanitize_name(name) ==
    replace_space(strip([i \in 1..Len(name) |-> MapChar(name[i])]))

-----------------------------------------------------------------------------
(* JSON values: a field of a decoded object is missing, null, a string or  *)
(* an integer.  dict.get(key) gives None for the first two.                *)

Missing == [kind |-> "missing", val |-> << >>]
Null == [kind |-> "null", val |-> << >>]
Str(s) == [kind |-> "str", val |-> s]
Num(n) == [kind |-> "int", val |-> n]

\* Python truthiness of dict.get(key): None, "" and 0 are false
Truthy(f) ==
    \/ f.kind = "str" /\ f.val # << >>
    \/ f.kind = "int" /\ f.val # 0

\* the key is in the object and its value is not null
Present(f) == f.kind \in {"str", "int"}

Summary(c, n, i) == [category |-> c, name |-> n, id |-> i]

-----------------------------------------------------------------------------
(* Categorizer.  A Python dict keeps insertion order: the CategoryIndex is *)
(* the sequence of its (key, list) items.                                  *)

\* position of key k among the items of dict d, 0 when k is not a key
KeyIndex(d, k) ==
    IF \E i \in 1..Len(d) : d[i].key = k
    THEN CHOOSE i \in 1..Len(d) : d[i].key = k
    ELSE 0

Entry(s) == [name |-> s.name.val, id |-> s.id.val]

\* a loop body that drops a name already listed in the category
OrganizeOne_Dedup(d, s) ==
    IF ~ (Truthy(s.category) /\ Truthy(s.name) /\ Truthy(s.id))
    THEN d
    ELSE LET k == s.category.val
             d1 == IF KeyIndex(d, k) = 0
                   THEN Append(d, [key |-> k, items |-> << >>])
                   ELSE d
             i == KeyIndex(d1, k)
         IN  IF \E j \in 1..Len(d1[i].items) : d1[i].items[j].name = s.name.val
             THEN d1
             ELSE [d1 EXCEPT ![i].items = Append(@, Entry(s))]

\* the loop body of organize_challenges_by_category
OrganizeOne(d, s) ==
    IF ~ (Truthy(s.category) /\ Truthy(s.name) /\ Truthy(s.id))
    THEN d
    ELSE LET k == s.category.val
             d1 == IF KeyIndex(d, k) = 0
                   THEN Append(d, [key |-> k, items |-> << >>])
                   ELSE d
             i == KeyIndex(d1, k)
         IN  [d1 EXCEPT ![i].items = Append(@, Entry(s))]

RECURSIVE OrganizeFrom(_, _, _)
OrganizeFrom(d, challenges, i) ==
    IF i > Len(challenges) THEN d
    ELSE OrganizeFrom(OrganizeOne(d, challenges[i]), challenges, i + 1)

organize_challenges_by_category(challenges) == OrganizeFrom(<< >>, challenges, 1)

-----------------------------------------------------------------------------
(* Filesystem below the target directory.  fs.dirs is the set of existing  *)
(* directories, fs.files maps the path of each regular file to its content;*)
(* ro is the set of directories the process has no write permission in.    *)

Root == << >>

\* os.path.join(dir, name): an empty name names the directory itself
Join(p, name) == IF name = << >> THEN p ELSE Append(p, name)

Prefixes(p) == {SubSeq(p, 1, k) : k \in 0..Len(p)}

Parent(p) == SubSeq(p, 1, Len(p) - 1)

README == <<"README.md">>

\* the probe file of ensure_directory_exists
PROBE == <<".permission_test">>

\* open(path, 'w'): an OSError when the path is a directory or its
\* directory is missing or not writable
CanWrite(fs, ro, path) ==
    /\ path \notin fs.dirs
    /\ path # Root
    /\ Parent(path) \in fs.dirs
    /\ Parent(path) \notin ro

\* a write that opens the file in append mode
WriteFile_Append(fs, path, content) ==
    [fs EXCEPT !.files = [q \in DOMAIN fs.files \cup {path} |->
                             IF q # path THEN fs.files[q]
                             ELSE IF path \in DOMAIN fs.files
                             THEN [kind |-> "appended", first |-> fs.files[path],
                                   then |-> content]
                             ELSE content]]

WriteFile(fs, path, content) ==
    [fs EXCEPT !.files = [q \in DOMAIN fs.files \cup {path} |->
                             IF q = path THEN content ELSE fs.files[q]]]

\* os.remove(path) of a regular file
RemoveFile(fs, path) ==
    [fs EXCEPT !.files = [q \in DOMAIN fs.files \ {path} |-> fs.files[q]]]

\* whether os.makedirs(path, exist_ok=True) and the write of the probe
\* file succeed
MakedirsOk(fs, ro, path) ==
    /\ \A q \in Prefixes(path) : q \notin DOMAIN fs.files
    /\ \A q \in Prefixes(path) \ fs.dirs : q = Root \/ Parent(q) \notin ro
    /\ path \notin ro
    /\ Join(path, PROBE) \notin fs.dirs

\* ensure_directory_exists: the directory and its missing parents are
\* created; the probe file is written and removed, which also removes a
\* file of that name that was there before
ensure_directory_exists(fs, ro, path) ==
    IF MakedirsOk(fs, ro, path)
    THEN [ok |-> TRUE,
          fs |-> RemoveFile([fs EXCEPT !.dirs = @ \cup Prefixes(path)],
                            Join(path, PROBE))]
    ELSE [ok |-> FALSE, fs |-> fs]

-----------------------------------------------------------------------------
(* API client.  srv.list is the response of the challenge-list endpoint,   *)
(* srv.detail[id] the response of the detail endpoint of challenge id.     *)
(* A response is [ok |-> FALSE] for a transport or HTTP-status error and   *)
(* [ok |-> TRUE, data |-> ...] otherwise.                                  *)

Failure == [ok |-> FALSE]
Success(d) == [ok |-> TRUE, data |-> d]

\* the empty object {} that response.json().get('data', {}) defaults to
EmptyDetail ==
    [id |-> Missing, description |-> Missing, category |-> Missing,
     value |-> Missing, tags |-> << >>, files |-> << >>]

\* fetch_challenges: raises on a failed request
fetch_challenges(srv) ==
    IF srv.list.ok
    THEN [raised |-> FALSE, data |-> srv.list.data]
    ELSE [raised |-> TRUE, data |-> << >>]

\* fetch_challenge_details: raises on a failed request
fetch_challenge_details(srv, challenge_id) ==
    IF srv.detail[challenge_id].ok
    THEN [raised |-> FALSE, data |-> srv.detail[challenge_id].data]
    ELSE [raised |-> TRUE, data |-> EmptyDetail]

-----------------------------------------------------------------------------
(* Filesystem materializer.  Every operator threads                        *)
(*   st = [fs, raised, log]:                                               *)
(* the filesystem, whether an exception is propagating, and the set of     *)
(* steps taken so far (calls and requests, for observation).               *)

Event(op, id, n) == [op |-> op, id |-> id, n |-> n]

Logged(st, e) == [st EXCEPT !.log = @ \cup {e}]

NoDescription == <<"No description provided">>
NA == <<"N/A">>

\* f"{details.get(key, default)}": the default only replaces a missing key,
\* a null is formatted as "None"
Render(f, default) ==
    IF f.kind = "missing" THEN default
    ELSE IF f.kind = "null" THEN <<"None">>
    ELSE f.val

\* the text create_readme writes
ReadmeText(challenge_name, challenge_id, details) ==
    [kind |-> "readme",
     title |-> challenge_name,
     description |-> Render(details.description, NoDescription),
     id |-> challenge_id,
     category |-> Render(details.category, NA),
     value |-> Render(details.value, NA),
     tags |-> details.tags,
     files |-> [i \in 1..Len(details.files) |-> details.files[i].base]]

\* create_readme: every exception is caught and logged
create_readme(st, ro, srv, challenge_dir, challenge_id, challenge_name) ==
    LET r == fetch_challenge_details(srv, challenge_id)
        path == Join(challenge_dir, README)
        st1 == Logged(st, Event("readme", challenge_id, 0))
    IN  IF r.raised THEN st1
        ELSE IF r.data = EmptyDetail THEN st1
        ELSE IF ~ CanWrite(st1.fs, ro, path) THEN st1
        ELSE [st1 EXCEPT !.fs = WriteFile(@, path,
                            ReadmeText(challenge_name, challenge_id, r.data))]

\* one iteration of the download loop: only RequestException is caught
DownloadOne(st, ro, challenge_id, download_dir, file_url, n) ==
    LET st1 == Logged(st, Event("get_file", challenge_id, n))
        file_path == Join(download_dir, file_url.base)
    IN  IF file_url.get # "ok" THEN st1
        ELSE IF ~ CanWrite(st1.fs, ro, file_path)
             THEN [st1 EXCEPT !.raised = TRUE]
        ELSE [st1 EXCEPT !.fs = WriteFile(@, file_path,
                            [kind |-> "attachment", body |-> file_url.body])]

RECURSIVE DownloadLoop(_, _, _, _, _, _)
DownloadLoop(st, ro, challenge_id, download_dir, urls, n) ==
    IF st.raised \/ n > Len(urls) THEN st
    ELSE DownloadLoop(DownloadOne(st, ro, challenge_id, download_dir, urls[n], n),
                      ro, challenge_id, download_dir, urls, n + 1)

\* download_challenge_files: the detail fetch is outside any try block
download_challenge_files(st, ro, srv, challenge_id, download_dir) ==
    LET r == fetch_challenge_details(srv, challenge_id)
        st1 == Logged(st, Event("download", challenge_id, 0))
        e == ensure_directory_exists(st1.fs, ro, download_dir)
    IN  IF r.raised THEN [st1 EXCEPT !.raised = TRUE]
        ELSE IF r.data = EmptyDetail \/ r.data.files = << >> THEN st1
        ELSE IF ~ e.ok THEN st1
        ELSE DownloadLoop([st1 EXCEPT !.fs = e.fs], ro, challenge_id,
                          download_dir, r.data.files, 1)

\* the body of the inner loop of create_challenge_directories
ProcessChallenge(st, ro, srv, category_dir, entry) ==
    LET challenge_dir == Join(category_dir, sanitize_name(entry.name))
        e == ensure_directory_exists(st.fs, ro, challenge_dir)
    IN  IF ~ e.ok THEN st
        ELSE download_challenge_files(
                 create_readme([st EXCEPT !.fs = e.fs], ro, srv, challenge_dir,
                               entry.id, entry.name),
                 ro, srv, entry.id, challenge_dir)

RECURSIVE ChallengeLoop(_, _, _, _, _, _)
ChallengeLoop(st, ro, srv, category_dir, items, k) ==
    IF st.raised \/ k > Len(items) THEN st
    ELSE ChallengeLoop(ProcessChallenge(st, ro, srv, category_dir, items[k]),
                       ro, srv, category_dir, items, k + 1)

\* the body of the outer loop of create_challenge_directories
ProcessCategory(st, ro, srv, root_dir, item) ==
    LET category_dir == Join(root_dir, sanitize_name(item.key))
        e == ensure_directory_exists(st.fs, ro, category_dir)
    IN  IF ~ e.ok THEN st
        ELSE ChallengeLoop([st EXCEPT !.fs = e.fs], ro, srv, category_dir,
                           item.items, 1)

RECURSIVE CategoryLoop(_, _, _, _, _, _)
CategoryLoop(st, ro, srv, root_dir, cats, c) ==
    IF st.raised \/ c > Len(cats) THEN st
    ELSE CategoryLoop(ProcessCategory(st, ro, srv, root_dir, cats[c]),
                      ro, srv, root_dir, cats, c + 1)

create_challenge_directories(fs, ro, srv, root_dir, cats) ==
    CategoryLoop([fs |-> fs, raised |-> FALSE, log |-> {}], ro, srv, root_dir,
                 cats, 1)

-----------------------------------------------------------------------------
(* Config store.  The sidecar <target>/.ctfd.yaml is absent, holds         *)
(* something yaml.safe_load does not turn into a mapping, or holds a       *)
(* mapping.  last_sync = 0 stands for a mapping without that key.          *)

Absent == [kind |-> "absent"]
Garbage == [kind |-> "garbage"]
Config(platform, u, created, updated, sync) ==
    [kind |-> "config", platform |-> platform, url |-> u,
     created_at |-> created, updated_at |-> updated, last_sync |-> sync,
     version |-> 1]

\* a load that falls back to a default mapping when there is no valid config
load_config_default(sc) ==
    IF sc.kind = "config" /\ sc.platform = "CTFd"
    THEN [found |-> TRUE, config |-> sc]
    ELSE [found |-> TRUE, config |-> Config("CTFd", "u1", 0, 0, 0)]

\* CTFdConfig.load_config: the mapping, or None
load_config(sc) ==
    IF sc.kind = "config" /\ sc.platform = "CTFd"
    THEN [found |-> TRUE, config |-> sc]
    ELSE [found |-> FALSE, config |-> sc]

\* CTFdConfig.create_config: datetime.now() is read twice; a failed write
\* is caught and leaves the file as it was
create_config(sc, ro, base_url, now) ==
    IF Root \in ro THEN sc
    ELSE Config("CTFd", base_url, now, now + 1, 0)

\* an update that rebuilds the mapping instead of merging into it
update_config_rebuild(sc, ro, last_sync, now) ==
    IF sc.kind # "config" \/ Root \in ro THEN sc
    ELSE Config("CTFd", sc.url, now, now, last_sync)

\* CTFdConfig.update_config: read, merge, stamp updated_at, write back; an
\* exception anywhere is caught and leaves the file as it was
update_config(sc, ro, last_sync, now) ==
    IF sc.kind # "config" \/ Root \in ro THEN sc
    ELSE [sc EXCEPT !.last_sync = last_sync, !.updated_at = now]

-----------------------------------------------------------------------------
(* The inputs the specifications draw from *)

RECURSIVE SeqsUpTo(_, _)
SeqsUpTo(S, n) ==
    IF n = 0 THEN {<< >>}
    ELSE LET shorter == SeqsUpTo(S, n - 1)
         IN  shorter \cup {Append(q, x) : q \in shorter, x \in S}

\* attachment URLs: two that download, one whose request fails, and one that
\* ends in "/" so that its basename is empty
U1 == [get |-> "ok", base |-> <<"f1">>, body |-> "bytes1"]
U2 == [get |-> "ok", base |-> <<"f2">>, body |-> "bytes2"]
U404 == [get |-> "fail", base |-> <<"f3">>, body |-> "none"]
UDir == [get |-> "ok", base |-> << >>, body |-> "bytes4"]
\* two whose basenames are names the program uses itself: the probe file
\* and a directory name
UProbe == [get |-> "ok", base |-> PROBE, body |-> "bytes5"]
UClash == [get |-> "ok", base |-> <<"a">>, body |-> "bytes6"]

Detail(i, description, value, tags, urls) ==
    [id |-> Num(i), description |-> description, category |-> Str(<<"c">>),
     value |-> value, tags |-> tags, files |-> urls]

DFull(i) == Success(Detail(i, Str(<<"d">>), Str(<<"5", "0">>), <<"easy">>, <<U1, U2>>))
DBare(i) == Success(Detail(i, Missing, Missing, << >>, << >>))
DNull(i) == Success(Detail(i, Null, Str(<<"5", "0">>), << >>, <<U404, U1>>))
DBlank(i) == Success(Detail(i, Str(<< >>), Str(<<"5", "0">>), << >>, <<UDir, U1>>))
DOdd(i) == Success(Detail(i, Str(<<"d">>), Missing, << >>, <<UProbe, UClash>>))

CatA == <<"a">>
CatASpace == <<"a", " ">>
CatBlank == <<" ">>
NameA == <<"a">>
NameADot == <<"a", ".">>
NameBlank == <<" ">>

Card(c, n, k) == [category |-> c, name |-> n, detail |-> k]

\* a challenge of the server: its summary fields and which detail response
\* its detail endpoint gives
MatCards ==
    {Card(Str(c), Str(n), k) :
        c \in {CatA, CatASpace, CatBlank},
        n \in {NameA, NameADot, NameBlank},
        k \in {"fail", "empty", "full", "bare", "null", "blank", "odd"}}

RunCards ==
    {Card(Str(CatA), Str(NameA), "full"),
     Card(Str(CatA), Str(NameADot), "fail"),
     Card(Str(CatA), Str(NameADot), "blank"),
     Card(Str(CatASpace), Str(NameA), "null"),
     Card(Str(CatBlank), Str(NameBlank), "bare"),
     Card(Str(CatA), Str(NameBlank), "empty"),
     Card(Str(CatASpace), Str(NameADot), "full"),
     Card(Str(CatBlank), Str(NameA), "null"),
     Card(Str(CatA), Str(NameBlank), "odd"),
     Card(Str(CatBlank), Str(NameA), "odd"),
     Card(Missing, Str(NameA), "full")}

DetailOf(k, i) ==
    CASE k = "fail" -> Failure
      [] k = "empty" -> Success(EmptyDetail)
      [] k = "full" -> DFull(i)
      [] k = "bare" -> DBare(i)
      [] k = "null" -> DNull(i)
      [] k = "blank" -> DBlank(i)
      [] k = "odd" -> DOdd(i)

\* the server holding the challenges of cards, with ids 1, 2, ... in order
Server(cards) ==
    [list |-> Success([i \in 1..Len(cards) |->
                          Summary(cards[i].category, cards[i].name, Num(i))]),
     detail |-> [i \in 1..Len(cards) |-> DetailOf(cards[i].detail, i)]]

\* the same server with the challenge-list endpoint failing
ServerDown == [list |-> Failure, detail |-> << >>]

Urls == {"u1", "u2"}

-----------------------------------------------------------------------------
(* The program: one invocation of __main__ after another.                  *)
(* pc: "idle" before the first run, "fetch" before fetch_challenges,       *)
(* "materialize" before create_challenge_directories, "update" before      *)
(* CTFdConfig.update_config, "done" after the process exited.              *)

Exit(code, step) ==
    /\ pc' = "done"
    /\ exitCode' = code
    /\ endedAt' = step

BeginRun(m) ==
    /\ pc \in {"idle", "done"}
    /\ runs < MaxRuns
    /\ runs' = runs + 1
    /\ mode' = m
    /\ startSidecar' = sidecar
    /\ prevRun' = [mode |-> mode, exitCode |-> exitCode,
                   dirs |-> dirs, files |-> files]
    /\ log' = {}
    /\ categories' = << >>

\* __main__ with --url: run_with_new_config up to the call of fetch_challenges
RunWithNewConfig(base_url) ==
    /\ BeginRun("fresh")
    /\ url' = base_url
    /\ LET e == ensure_directory_exists([dirs |-> dirs, files |-> files],
                                        readonly, Root)
       IN  IF ~ e.ok
           THEN /\ Exit(1, "start")
                /\ UNCHANGED << dirs, files, sidecar, clock >>
           ELSE /\ dirs' = e.fs.dirs
                /\ files' = e.fs.files
                /\ sidecar' = create_config(sidecar, readonly, base_url, clock)
                /\ clock' = clock + 2
                /\ pc' = "fetch"
                /\ exitCode' = -1
                /\ UNCHANGED endedAt
    /\ UNCHANGED << api, readonly >>
    /\ UNCHANGED << sanVars, orgVars >>

\* a resume run that stamps last_sync as soon as the config is loaded
RunFromConfig_StampFirst ==
    /\ BeginRun("resume")
    /\ LET c == load_config(sidecar)
       IN  IF ~ c.found
           THEN /\ Exit(1, "load")
                /\ UNCHANGED << url, sidecar, clock >>
           ELSE /\ url' = c.config.url
                /\ sidecar' = update_config(sidecar, readonly, clock, clock + 1)
                /\ clock' = clock + 2
                /\ pc' = "fetch"
                /\ exitCode' = -1
                /\ UNCHANGED endedAt
    /\ UNCHANGED << api, readonly, dirs, files >>
    /\ UNCHANGED << sanVars, orgVars >>

\* __main__ without --url: run_from_config up to the call of fetch_challenges
RunFromConfig ==
    /\ BeginRun("resume")
    /\ LET c == load_config(sidecar)
       IN  IF ~ c.found
           THEN /\ Exit(1, "load")
                /\ UNCHANGED url
           ELSE /\ url' = c.config.url
                /\ pc' = "fetch"
                /\ exitCode' = -1
                /\ UNCHANGED endedAt
    /\ UNCHANGED << api, readonly, dirs, files, sidecar, clock >>
    /\ UNCHANGED << sanVars, orgVars >>

\* fetch_challenges, the "No challenges found!" return and the categorizer
FetchChallenges ==
    /\ pc = "fetch"
    /\ LET r == fetch_challenges(api)
       IN  IF r.raised
           THEN Exit(1, "fetch") /\ UNCHANGED categories
           ELSE IF r.data = << >>
           THEN Exit(0, "fetch") /\ UNCHANGED categories
           ELSE /\ categories' = organize_challenges_by_category(r.data)
                /\ pc' = "materialize"
                /\ UNCHANGED << exitCode, endedAt >>
    /\ log' = {Event("list", 0, 0)}
    /\ UNCHANGED << api, readonly, dirs, files, sidecar, clock, mode, url,
                    runs, startSidecar, prevRun >>
    /\ UNCHANGED << sanVars, orgVars >>

\* create_challenge_directories; an exception leaves through __main__'s
\* handler with exit(1)
Materialize ==
    /\ pc = "materialize"
    /\ LET st == create_challenge_directories([dirs |-> dirs, files |-> files],
                                              readonly, api, Root, categories)
       IN  /\ dirs' = st.fs.dirs
           /\ files' = st.fs.files
           /\ log' = log \cup st.log
           /\ IF st.raised THEN Exit(1, "materialize")
              ELSE IF mode = "resume"
              THEN pc' = "update" /\ UNCHANGED << exitCode, endedAt >>
              ELSE Exit(0, "materialize")
    /\ UNCHANGED << api, readonly, sidecar, clock, mode, url, categories,
                    runs, startSidecar, prevRun >>
    /\ UNCHANGED << sanVars, orgVars >>

\* the last statement of run_from_config
UpdateConfig ==
    /\ pc = "update"
    /\ sidecar' = update_config(sidecar, readonly, clock, clock + 1)
    /\ clock' = IF sidecar.kind = "config" THEN clock + 2 ELSE clock + 1
    /\ Exit(0, "update")
    /\ UNCHANGED << api, readonly, dirs, files, mode, url, categories, runs,
                    log, startSidecar, prevRun >>
    /\ UNCHANGED << sanVars, orgVars >>

-----------------------------------------------------------------------------
(* The two pure functions, applied to the inputs Init draws *)

\* sanitize_name applied to the input, then to its own result
Sanitize ==
    /\ Len(sanOut) < 2
    /\ sanOut' = Append(sanOut, sanitize_name(IF sanOut = << >> THEN sanIn
                                              ELSE sanOut[Len(sanOut)]))
    /\ UNCHANGED << sanIn, orgVars, runVars >>

Organize ==
    /\ ~ orgOut.done
    /\ orgOut' = [done |-> TRUE, val |-> organize_challenges_by_category(orgIn)]
    /\ UNCHANGED << orgIn, sanVars, runVars >>

-----------------------------------------------------------------------------
(* Initial states *)

SanIdle == sanIn = << >> /\ sanOut = << >>
OrgIdle == orgIn = << >> /\ orgOut = [done |-> FALSE, val |-> << >>]

NoRun == [mode |-> "none", exitCode |-> -1, dirs |-> {}, files |-> << >>]

\* the sidecar a fresh run at time 1 left behind
OldConfig(u) == Config("CTFd", u, 1, 2, 0)

RunIdle ==
    /\ api = ServerDown
    /\ readonly = {}
    /\ dirs = {Root}
    /\ files = << >>
    /\ sidecar = Absent
    /\ clock = 3
    /\ pc = "idle"
    /\ mode = "none"
    /\ url = "none"
    /\ categories = << >>
    /\ exitCode = -1
    /\ runs = 0
    /\ endedAt = "none"
    /\ log = {}
    /\ startSidecar = Absent
    /\ prevRun = NoRun

InitSan ==
    /\ sanIn \in StringsUpTo(MaxLen)
    /\ sanOut = << >>
    /\ OrgIdle
    /\ RunIdle

\* the summaries the categorizer is tried on: every valid one over two
\* categories, two names and two ids, and one summary with each field in
\* turn missing, null, empty or zero
OrgSummaries ==
    {Summary(Str(c), Str(n), Num(i)) :
        c \in {CatA, CatASpace}, n \in {NameA, NameADot}, i \in {1, 2}}
    \cup {Summary(c, Str(NameA), Num(1)) : c \in {Missing, Null, Str(<< >>)}}
    \cup {Summary(Str(CatA), n, Num(1)) : n \in {Missing, Null, Str(<< >>)}}
    \cup {Summary(Str(CatA), Str(NameA), i) : i \in {Missing, Null, Num(0)}}

InitOrg ==
    /\ orgIn \in SeqsUpTo(OrgSummaries, MaxSummaries)
    /\ orgOut = [done |-> FALSE, val |-> << >>]
    /\ SanIdle
    /\ RunIdle

\* directories that exist before the run and cannot be written into
MatReadonly == {{}, {<<CatA>>}, {<<CatA, sanitize_name(NameADot)>>}}

ExistingDirs(ro) == {Root} \cup UNION {Prefixes(p) : p \in ro}

\* a fresh run that has fetched a non-empty challenge list and is about to
\* call create_challenge_directories
InitMat ==
    /\ \E cards \in SeqsUpTo(MatCards, MaxChallenges) \ {<< >>} :
          /\ api = Server(cards)
          /\ categories = organize_challenges_by_category(Server(cards).list.data)
    /\ readonly \in MatReadonly
    /\ dirs = ExistingDirs(readonly)
    /\ files = << >>
    /\ sidecar = Config("CTFd", "u1", 3, 4, 0)
    /\ clock = 5
    /\ pc = "materialize"
    /\ mode = "fresh"
    /\ url = "u1"
    /\ exitCode = -1
    /\ runs = 1
    /\ endedAt = "none"
    /\ log = {Event("list", 0, 0)}
    /\ startSidecar = Absent
    /\ prevRun = [NoRun EXCEPT !.dirs = dirs]
    /\ SanIdle
    /\ OrgIdle

\* what the target directory is like before the first run: whether it
\* exists, what its sidecar holds, which directories are read-only
RunScenarios ==
    {[dirs |-> {}, readonly |-> {}, sidecar |-> Absent],
     [dirs |-> {Root}, readonly |-> {}, sidecar |-> Absent],
     [dirs |-> {Root}, readonly |-> {}, sidecar |-> Garbage],
     [dirs |-> {Root}, readonly |-> {}, sidecar |-> OldConfig("u1")],
     [dirs |-> {Root}, readonly |-> {}, sidecar |-> OldConfig("u2")],
     [dirs |-> {Root}, readonly |-> {},
      sidecar |-> Config("other", "u1", 1, 2, 0)],
     [dirs |-> {Root}, readonly |-> {Root}, sidecar |-> OldConfig("u1")],
     [dirs |-> {Root, <<CatA>>}, readonly |-> {<<CatA>>},
      sidecar |-> OldConfig("u1")]}

InitRun ==
    /\ api \in {ServerDown} \cup {Server(cards) : cards \in SeqsUpTo(RunCards, MaxChallenges)}
    /\ \E sc \in RunScenarios :
          /\ dirs = sc.dirs
          /\ readonly = sc.readonly
          /\ sidecar = sc.sidecar
    /\ files = << >>
    /\ clock = 3
    /\ pc = "idle"
    /\ mode = "none"
    /\ url = "none"
    /\ categories = << >>
    /\ exitCode = -1
    /\ runs = 0
    /\ endedAt = "none"
    /\ log = {}
    /\ startSidecar = Absent
    /\ prevRun = NoRun
    /\ SanIdle
    /\ OrgIdle

-----------------------------------------------------------------------------
(* Specifications *)

NextSan == Sanitize
NextOrg == Organize
NextMat == Materialize
Next ==
    \/ \E u \in Urls : RunWithNewConfig(u)
    \/ RunFromConfig
    \/ FetchChallenges
    \/ Materialize
    \/ UpdateConfig

SpecSan == InitSan /\ [][NextSan]_vars
SpecOrg == InitOrg /\ [][NextOrg]_vars
SpecMat == InitMat /\ [][NextMat]_vars
Spec == InitRun /\ [][Next]_vars

-----------------------------------------------------------------------------
(* Properties of sanitize_name (SpecSan) *)

SafeChars == Alnum \cup {"-", "_"}

\* C6: sanitize_name is idempotent, and every character of its result is an
\* alphanumeric, a hyphen or an underscore.
C6_SanitizeIdempotentSafe ==
    /\ Len(sanOut) = 2 => sanOut[2] = sanOut[1]
    /\ \A k \in 1..Len(sanOut) :
          \A i \in 1..Len(sanOut[k]) : sanOut[k][i] \in SafeChars

\* sanitize_name was applied twice to a string with a space between two
\* kept characters, a stripped end and a replaced character
C6_Witness ==
    /\ Len(sanOut) = 2
    /\ Len(sanIn) = 3
    /\ sanIn[2] = " "
    /\ sanIn[3] = "\t"
    /\ sanOut[1] = <<"a", "_", "_">>

-----------------------------------------------------------------------------
(* Properties of the categorizer (SpecOrg) *)

RECURSIVE Ascending(_)
Ascending(S) ==
    IF S = {} THEN << >>
    ELSE LET m == CHOOSE x \in S : \A y \in S : x <= y
         IN  <<m>> \o Ascending(S \ {m})

\* The reference grouping of a summary list, given which summaries count:
\* the categories of the counted summaries in order of first occurrence,
\* each with the (name, id) of its counted summaries in input order.
RefGrouping(in, Counts(_)) ==
    LET kept == {i \in 1..Len(in) : Counts(in[i])}
        cat(i) == in[i].category.val
        firsts == Ascending({i \in kept :
                                \A j \in kept : j < i => cat(j) # cat(i)})
    IN  [k \in 1..Len(firsts) |->
            LET members == Ascending({i \in kept : cat(i) = cat(firsts[k])})
            IN  [key |-> cat(firsts[k]),
                 items |-> [m \in 1..Len(members) |->
                               [name |-> in[members[m]].name.val,
                                id |-> in[members[m]].id.val]]]]

HasAllFields(s) == Present(s.category) /\ Present(s.name) /\ Present(s.id)
AllFieldsTruthy(s) == Truthy(s.category) /\ Truthy(s.name) /\ Truthy(s.id)

\* C5 as claimed: the categorizer equals the reference grouping in which a
\* summary is skipped exactly when category, name or id is missing.
C5_SkipsExactlyMissing ==
    orgOut.done => orgOut.val = RefGrouping(orgIn, HasAllFields)

\* C5 amended: the categorizer equals the reference grouping in which a
\* summary is skipped exactly when category, name or id is missing, null,
\* the empty string or zero; categories appear in first-occurrence order,
\* entries in input order, duplicate names kept.
C5_SkipsExactlyFalsy ==
    orgOut.done => orgOut.val = RefGrouping(orgIn, AllFieldsTruthy)

\* two categories came out, the second one first seen after the first, and
\* one of them lists the same name twice
C5_Witness ==
    /\ orgOut.done
    /\ Len(orgOut.val) = 2
    /\ \E k \in 1..2 :
          /\ Len(orgOut.val[k].items) = 2
          /\ orgOut.val[k].items[1].name = orgOut.val[k].items[2].name
          /\ orgOut.val[k].items[1].id # orgOut.val[k].items[2].id

-----------------------------------------------------------------------------
(* Properties of the materializer (SpecMat) *)

\* create_challenge_directories has returned or raised
AfterMaterialize == pc = "update" \/ (pc = "done" /\ endedAt = "materialize")

\* an exception left create_challenge_directories and ended the run
Aborted == pc = "done" /\ endedAt = "materialize" /\ exitCode = 1

ChallengeIds == DOMAIN api.detail

AllDetailsOk == \A i \in ChallengeIds : api.detail[i].ok

\* every attachment has a basename of its own: not empty, not the name of
\* a directory or of the probe file
AllBasenamesPlain ==
    \A i \in ChallengeIds :
        api.detail[i].ok =>
            \A n \in 1..Len(api.detail[i].data.files) :
                api.detail[i].data.files[n] \in {U1, U2, U404}

CategoryDirOf(category) == Join(Root, sanitize_name(category))
ChallengeDirOf(category, name) ==
    Join(CategoryDirOf(category), sanitize_name(name))

\* C1: when the detail fetch of a challenge fails, every other challenge of
\* its category still gets its directory, its README step and its
\* attachment step, and the run does not abort.
C1_SiblingsSurviveDetailFailure ==
    (AfterMaterialize /\ readonly = {} /\ AllBasenamesPlain) =>
        \A c \in 1..Len(categories) :
            LET items == categories[c].items
            IN  \A k \in 1..Len(items) :
                    (Len(items) >= 2 /\ ~ api.detail[items[k].id].ok) =>
                        /\ ~ Aborted
                        /\ \A j \in 1..Len(items) :
                              /\ ChallengeDirOf(categories[c].key, items[j].name)
                                    \in dirs
                              /\ Event("readme", items[j].id, 0) \in log
                              /\ Event("download", items[j].id, 0) \in log

\* C3: materializing valid summaries into an empty writable root with all
\* detail fetches succeeding leaves exactly the directories of the input's
\* challenges (a set that does not depend on the input order), one for each
\* distinct (category, sanitized-name) pair.
C3_OneDirectoryPerPair ==
    (AfterMaterialize /\ readonly = {} /\ AllDetailsOk) =>
        LET in == api.list.data
            paths == {ChallengeDirOf(in[i].category.val, in[i].name.val) :
                         i \in 1..Len(in)}
            pairs == {<<in[i].category.val, sanitize_name(in[i].name.val)>> :
                         i \in 1..Len(in)}
        IN  /\ dirs = {Root} \cup UNION {Prefixes(p) : p \in paths}
            /\ Cardinality(paths) = Cardinality(pairs)

\* C7: when the download of one file of a challenge fails (the request or
\* the write), the other files of the challenge are still attempted and the
\* run goes on.
C7_FileFailureSkipped ==
    (AfterMaterialize /\ readonly = {} /\ AllDetailsOk) =>
        /\ ~ Aborted
        /\ \A i \in ChallengeIds :
              \A n \in 1..Len(api.detail[i].data.files) :
                  Event("get_file", i, n) \in log

\* C8: a README holds the detail's description when that is a non-empty
\* string, and the placeholder when it is missing, null or empty.
C8_DescriptionOrPlaceholder ==
    \A p \in DOMAIN files :
        files[p].kind = "readme" =>
            LET d == api.detail[files[p].id].data.description
            IN  files[p].description =
                    IF d.kind = "str" /\ d.val # << >> THEN d.val
                    ELSE NoDescription

-----------------------------------------------------------------------------
(* Properties of the runs (Spec) *)

ConfigFieldsKept(before, after) ==
    /\ after.platform = before.platform
    /\ after.url = before.url
    /\ after.created_at = before.created_at
    /\ after.version = before.version

\* C2: a resume-mode run against a target without .ctfd.yaml ends at once
\* with exit status 1: it is never at a later step, requests nothing and
\* leaves the directories and files as they were.
C2_ResumeWithoutConfigFails ==
    (mode = "resume" /\ startSidecar = Absent) =>
        /\ pc = "done"
        /\ exitCode = 1
        /\ endedAt = "load"
        /\ log = {}
        /\ dirs = prevRun.dirs
        /\ files = prevRun.files

\* a resume run found no sidecar in a target directory that does not exist
C2_Witness ==
    /\ mode = "resume"
    /\ startSidecar = Absent
    /\ pc = "done"
    /\ api.list.ok
    /\ Len(api.list.data) = 2
    /\ dirs = {}

\* C4: when a fresh run follows a fresh run against the same target and the
\* same API responses, the directories, READMEs and attachments it leaves
\* are those the first run left.
C4_FreshTwiceIdempotent ==
    (pc = "done" /\ mode = "fresh" /\ prevRun.mode = "fresh") =>
        /\ dirs = prevRun.dirs
        /\ files = prevRun.files

\* the second of two fresh runs finished after rewriting the README of two
\* challenges that share a directory, and an attachment
C4_Witness ==
    /\ pc = "done"
    /\ mode = "fresh"
    /\ prevRun.mode = "fresh"
    /\ exitCode = 0
    /\ \E c \in 1..Len(categories) : Len(categories[c].items) = 2
    /\ Cardinality(DOMAIN files) = 3
    /\ Cardinality(dirs) = 3

=============================================================================
